---- MODULE Spec2Model ----
(***************************************************************************)
(* Impact-physics and mitigation engine of the asteroid impact digital     *)
(* twin (simulation.py), as a state machine over a heap of result dicts.   *)
(*                                                                         *)
(* Numbers.  The program computes in Python floats.  The model computes in *)
(* exact real arithmetic: a number is a sign and a vector of exponents of  *)
(* 2, 3, 5, 7, 523 and pi, each exponent counted in 36ths, which is closed *)
(* under every product, quotient, power and root the program takes of the  *)
(* inputs drawn here (4184 = 2^3 * 523).  Equality of two numbers is exact;*)
(* order is decided from a table of logarithms.  Rounding, overflow and    *)
(* underflow of the 64-bit floats are not modelled.  A negative base under *)
(* a fractional power is Python's complex number, kept as its own value.   *)
(***************************************************************************)
EXTENDS Integers, Sequences, FiniteSets, TLC

VARIABLES scenario, heap, inputs, made, last

vars == <<scenario, heap, inputs, made, last>>

----------------------------------------------------------------------------
(* Exact real arithmetic *)

\* exponents are counted in units of 1/Den: 4 for E ** 0.25, 9 for ** (1/9)
Den == 4 * 9

Slots == 1 .. 6

Primes == <<2, 3, 5, 7, 523>>

\* round(10^5 * ln p) for 2, 3, 5, 7, 523 and pi
LogTable == <<69315, 109861, 160944, 194591, 625958, 114473>>

NoExp == [i \in Slots |-> 0]

Zero == [s |-> 0, e |-> NoExp]

One == [s |-> 1, e |-> NoExp]

\* a Python complex number (only its being complex matters to the program)
Complex == [s |-> 2, e |-> NoExp]

IsComplex(a) == a.s = 2

IsReal(a) == a.s \in {-1, 0, 1}

Pi == [s |-> 1, e |-> [i \in Slots |-> IF i = 6 THEN Den ELSE 0]]

RECURSIVE Fac(_, _)
Fac(n, i) ==
    IF n = 1 THEN NoExp
    ELSE IF n % Primes[i] = 0
         THEN LET r == Fac(n \div Primes[i], i)
              IN  [j \in Slots |-> IF j = i THEN r[j] + Den ELSE r[j]]
         ELSE Fac(n, i + 1)

\* the float of an integer literal or argument
Num(n) ==
    IF n = 0 THEN Zero
    ELSE IF n > 0 THEN [s |-> 1, e |-> Fac(n, 1)]
    ELSE [s |-> -1, e |-> Fac(-n, 1)]

Mul(a, b) ==
    IF IsComplex(a) \/ IsComplex(b) THEN Complex
    ELSE IF a.s = 0 \/ b.s = 0 THEN Zero
    ELSE [s |-> a.s * b.s, e |-> [i \in Slots |-> a.e[i] + b.e[i]]]

\* a / b for b # 0 (the callers guard b = 0, Python's ZeroDivisionError)
Div(a, b) ==
    IF IsComplex(a) \/ IsComplex(b) THEN Complex
    ELSE IF a.s = 0 THEN Zero
    ELSE [s |-> a.s * b.s, e |-> [i \in Slots |-> a.e[i] - b.e[i]]]

\* a ** n for an int n >= 1
PowInt(a, n) ==
    IF IsComplex(a) THEN Complex
    ELSE IF a.s = 0 THEN Zero
    ELSE [s |-> IF a.s = -1 /\ n % 2 = 1 THEN -1 ELSE 1,
          e |-> [i \in Slots |-> a.e[i] * n]]

\* a ** (1/q) for q >= 2: complex for a negative base, 0.0 for 0.0
Root(a, q) ==
    IF IsComplex(a) \/ a.s = -1 THEN Complex
    ELSE IF a.s = 0 THEN Zero
    ELSE [s |-> 1, e |-> [i \in Slots |-> a.e[i] \div q]]

RECURSIVE LogSum(_, _)
LogSum(e, i) == IF i > 6 THEN 0 ELSE e[i] * LogTable[i] + LogSum(e, i + 1)

RECURSIVE AbsSum(_, _)
AbsSum(e, i) ==
    IF i > 6 THEN 0
    ELSE (IF e[i] < 0 THEN -e[i] ELSE e[i]) + AbsSum(e, i + 1)

\* a < b for positive a, b: the sign of ln a - ln b.  The table is exact to
\* half a unit per exponent; a gap inside that error is no answer at all.
LtPos(a, b) ==
    LET d   == [i \in Slots |-> a.e[i] - b.e[i]]
        gap == LogSum(d, 1)
        err == AbsSum(d, 1)
    IN  IF d = NoExp THEN FALSE
        ELSE IF gap > err THEN FALSE
        ELSE IF gap < -err THEN TRUE
        ELSE CHOOSE x \in {} : TRUE

\* a < b for real a, b
Lt(a, b) ==
    IF a.s # b.s THEN a.s < b.s
    ELSE IF a.s = 0 THEN FALSE
    ELSE IF a.s = 1 THEN LtPos(a, b)
    ELSE LtPos(b, a)

Leq(a, b) == a = b \/ Lt(a, b)

----------------------------------------------------------------------------
(* Python built-ins the program calls *)

\* the value standing for a raised TypeError
TypeError == [s |-> 3, e |-> NoExp]

\* the value standing for a raised ValueError
ValueError == [s |-> 4, e |-> NoExp]

\* the value standing for a raised ZeroDivisionError
ZeroDivisionError == [s |-> 5, e |-> NoExp]

IsRaised(a) == a.s \in {3, 4, 5}

\* max(a, b): b when b > a, else a; ordering a complex number is a TypeError
Py_max(a, b) ==
    IF IsComplex(a) \/ IsComplex(b) THEN TypeError
    ELSE IF Lt(a, b) THEN b ELSE a

\* math.sqrt(a): "math domain error" below zero
Py_sqrt(a) == IF a.s = -1 THEN ValueError ELSE Root(a, 2)

\* math.sin(math.radians(deg)) at the angles drawn
SinDeg(deg) ==
    CASE deg = 90  -> One
      [] deg = 45  -> Root(Div(One, Num(2)), 2)
      [] deg = 135 -> Root(Div(One, Num(2)), 2)
      [] deg = 30  -> Div(One, Num(2))
      [] deg = 0   -> Zero
      [] deg = -30 -> Div(Num(-1), Num(2))

\* Python's None
None == <<>>

----------------------------------------------------------------------------
(* simulation.py *)

JOULES_PER_MEGATON_TNT == Mul(Num(4184), PowInt(Num(10), 12))

\* mutant: the mass scaled by a count of the results produced so far
mass_from_diameter_counted(diameter_m, density_kg_m3) ==
    LET r      == Div(diameter_m, Num(2))
        volume == Mul(Mul(Div(Num(4), Num(3)), Pi), PowInt(r, 3))
    IN  Mul(Mul(density_kg_m3, volume), Num(Len(heap) + 1))

mass_from_diameter(diameter_m, density_kg_m3) ==
    LET r      == Div(diameter_m, Num(2))
        volume == Mul(Mul(Div(Num(4), Num(3)), Pi), PowInt(r, 3))
    IN  Mul(density_kg_m3, volume)

\* mutant: the mass squared in place of the velocity
kinetic_energy_joules_wrongvar(mass_kg, velocity_m_s) ==
    Mul(Mul(Div(One, Num(2)), mass_kg), PowInt(mass_kg, 2))

kinetic_energy_joules(mass_kg, velocity_m_s) ==
    Mul(Mul(Div(One, Num(2)), mass_kg), PowInt(velocity_m_s, 2))

energy_megatons(energy_joules) == Div(energy_joules, JOULES_PER_MEGATON_TNT)

estimate_crater_diameter(energy_joules, density_impactor, density_target, impact_angle_deg) ==
    LET E == energy_joules
        angle_factor == Root(SinDeg(impact_angle_deg), 3)
        C == Div(Num(35), Num(1000))
        crater_diameter_m ==
            Mul(Mul(Mul(C, Root(E, 4)), angle_factor),
                Root(Div(density_impactor, density_target), 9))
    IN  Py_max(One, crater_diameter_m)

\* mutant: the severe zone's factor 0.4 in place of 0.6
estimate_damage_radii_weak_severe(energy_joules) ==
    LET E_mt == energy_megatons(energy_joules)
        lethal_m   == Mul(Num(1000), Root(E_mt, 3))
        severe_m   == Mul(Mul(Num(2000), Root(E_mt, 3)), Div(Num(4), Num(10)))
        moderate_m == Mul(Mul(Num(3000), Root(E_mt, 3)), Div(Num(12), Num(10)))
    IN  IF Leq(E_mt, Zero)
        THEN [lethal_m |-> Zero, severe_m |-> Zero, moderate_m |-> Zero]
        ELSE [lethal_m   |-> Py_max(Num(5), lethal_m),
              severe_m   |-> Py_max(Num(10), severe_m),
              moderate_m |-> Py_max(Num(20), moderate_m)]

\* mutant: the radii returned without their floors
estimate_damage_radii_unclamped(energy_joules) ==
    LET E_mt == energy_megatons(energy_joules)
        lethal_m   == Mul(Num(1000), Root(E_mt, 3))
        severe_m   == Mul(Mul(Num(2000), Root(E_mt, 3)), Div(Num(6), Num(10)))
        moderate_m == Mul(Mul(Num(3000), Root(E_mt, 3)), Div(Num(12), Num(10)))
    IN  IF Leq(E_mt, Zero)
        THEN [lethal_m |-> Zero, severe_m |-> Zero, moderate_m |-> Zero]
        ELSE [lethal_m   |-> lethal_m,
              severe_m   |-> severe_m,
              moderate_m |-> moderate_m]

\* mutant: no branch for E_mt <= 0, the floors apply to every energy
estimate_damage_radii_nobranch(energy_joules) ==
    LET E_mt == energy_megatons(energy_joules)
        lethal_m   == Mul(Num(1000), Root(E_mt, 3))
        severe_m   == Mul(Mul(Num(2000), Root(E_mt, 3)), Div(Num(6), Num(10)))
        moderate_m == Mul(Mul(Num(3000), Root(E_mt, 3)), Div(Num(12), Num(10)))
    IN  [lethal_m   |-> Py_max(Num(5), lethal_m),
         severe_m   |-> Py_max(Num(10), severe_m),
         moderate_m |-> Py_max(Num(20), moderate_m)]

estimate_damage_radii(energy_joules) ==
    LET E_mt == energy_megatons(energy_joules)
        lethal_m   == Mul(Num(1000), Root(E_mt, 3))
        severe_m   == Mul(Mul(Num(2000), Root(E_mt, 3)), Div(Num(6), Num(10)))
        moderate_m == Mul(Mul(Num(3000), Root(E_mt, 3)), Div(Num(12), Num(10)))
    IN  IF Leq(E_mt, Zero)
        THEN [lethal_m |-> Zero, severe_m |-> Zero, moderate_m |-> Zero]
        ELSE [lethal_m   |-> Py_max(Num(5), lethal_m),
              severe_m   |-> Py_max(Num(10), severe_m),
              moderate_m |-> Py_max(Num(20), moderate_m)]

area_from_radius_m(radius_m) ==
    LET area_m2 == Mul(Pi, PowInt(radius_m, 2))
    IN  Div(area_m2, Num(1000000))

\* the outcome of a call: exc is "none" and out the returned dict, or exc
\* names the exception that left the call and nothing is returned
Raise(name) == [exc |-> name]

simulate_impact(diameter_m, velocity_m_s, density_kg_m3, impact_angle_deg, lat, lon) ==
    LET m    == mass_from_diameter(diameter_m, density_kg_m3)
        E    == kinetic_energy_joules(m, velocity_m_s)
        E_mt == energy_megatons(E)
        crater_d == estimate_crater_diameter(E, density_kg_m3, Num(2500),
                                             impact_angle_deg)
        damage_radii == estimate_damage_radii(E)
        areas_km2 == [k \in DOMAIN damage_radii |->
                         area_from_radius_m(damage_radii[k])]
    IN  IF IsRaised(crater_d) THEN Raise("TypeError")
        ELSE [exc |-> "none",
              out |-> [input |-> [diameter_m       |-> diameter_m,
                                  velocity_m_s     |-> velocity_m_s,
                                  density_kg_m3    |-> density_kg_m3,
                                  impact_angle_deg |-> impact_angle_deg,
                                  lat              |-> lat,
                                  lon              |-> lon],
                       mass_kg            |-> m,
                       energy_joules      |-> E,
                       energy_megatons    |-> E_mt,
                       crater_diameter_m  |-> crater_d,
                       damage_radii_m     |-> damage_radii,
                       affected_areas_km2 |-> areas_km2]]

----------------------------------------------------------------------------
(* Mitigation.  sim_result is the index of a result dict in heap; its      *)
(* 'input' entry is a reference into inputs.  An operator yields ret, the  *)
(* outcome of the call; store, the input dicts as its body leaves them;    *)
(* raw, the quantity it computes from its parameter; and used, the         *)
(* quantity that enters the transform.                                     *)

\* 1.0 - pct/100.0
OneMinusPct(pct) == Div(Num(100 - pct), Num(100))

\* mutant: the new velocity written into the prior's own input dict
apply_kinetic_impactor_inplace(sim_result, velocity_reduction_pct) ==
    LET inp == inputs[heap[sim_result].input]
        factor == OneMinusPct(velocity_reduction_pct)
        new_velocity == Mul(inp.velocity_m_s, factor)
    IN  [ret   |-> simulate_impact(inp.diameter_m, new_velocity,
                                   inp.density_kg_m3, inp.impact_angle_deg,
                                   inp.lat, inp.lon),
         store |-> [inputs EXCEPT ![heap[sim_result].input].velocity_m_s =
                                      new_velocity],
         raw   |-> factor,
         used  |-> factor]

apply_kinetic_impactor(sim_result, velocity_reduction_pct) ==
    LET inp == inputs[heap[sim_result].input]
        factor == OneMinusPct(velocity_reduction_pct)
        new_velocity == Mul(inp.velocity_m_s, factor)
    IN  [ret   |-> simulate_impact(inp.diameter_m, new_velocity,
                                   inp.density_kg_m3, inp.impact_angle_deg,
                                   inp.lat, inp.lon),
         store |-> inputs,
         raw   |-> factor,
         used  |-> factor]

apply_nuclear_deflection(sim_result, energy_reduction_pct) ==
    LET inp == inputs[heap[sim_result].input]
        remaining == OneMinusPct(energy_reduction_pct)
        clamped == Py_max(Zero, remaining)
        factor == Py_sqrt(clamped)
        new_velocity == Mul(inp.velocity_m_s, factor)
    IN  [ret   |-> simulate_impact(inp.diameter_m, new_velocity,
                                   inp.density_kg_m3, inp.impact_angle_deg,
                                   inp.lat, inp.lon),
         store |-> inputs,
         raw   |-> remaining,
         used  |-> clamped]

\* mutant: lat and lon not passed on (simulate_impact's defaults, None)
apply_fragmentation_no_place(sim_result, fragment_count) ==
    LET inp == inputs[heap[sim_result].input]
        root == Py_sqrt(Num(fragment_count))
        factor == Div(One, root)
        new_velocity == Mul(inp.velocity_m_s, factor)
        new_diameter == Div(inp.diameter_m, Root(Num(fragment_count), 3))
    IN  [ret   |-> IF IsRaised(root) THEN Raise("ValueError")
                   ELSE IF root = Zero THEN Raise("ZeroDivisionError")
                   ELSE simulate_impact(new_diameter, new_velocity,
                                        inp.density_kg_m3,
                                        inp.impact_angle_deg, None, None),
         store |-> inputs,
         raw   |-> Num(fragment_count),
         used  |-> Num(fragment_count)]

\* mutant: the diameter divided by the square root of the count
apply_fragmentation_sqrt(sim_result, fragment_count) ==
    LET inp == inputs[heap[sim_result].input]
        root == Py_sqrt(Num(fragment_count))
        factor == Div(One, root)
        new_velocity == Mul(inp.velocity_m_s, factor)
        new_diameter == Div(inp.diameter_m, Root(Num(fragment_count), 2))
    IN  [ret   |-> IF IsRaised(root) THEN Raise("ValueError")
                   ELSE IF root = Zero THEN Raise("ZeroDivisionError")
                   ELSE simulate_impact(new_diameter, new_velocity,
                                        inp.density_kg_m3,
                                        inp.impact_angle_deg,
                                        inp.lat, inp.lon),
         store |-> inputs,
         raw   |-> Num(fragment_count),
         used  |-> Num(fragment_count)]

apply_fragmentation(sim_result, fragment_count) ==
    LET inp == inputs[heap[sim_result].input]
        root == Py_sqrt(Num(fragment_count))
        factor == Div(One, root)
        new_velocity == Mul(inp.velocity_m_s, factor)
        new_diameter == Div(inp.diameter_m, Root(Num(fragment_count), 3))
    IN  [ret   |-> IF IsRaised(root) THEN Raise("ValueError")
                   ELSE IF root = Zero THEN Raise("ZeroDivisionError")
                   ELSE simulate_impact(new_diameter, new_velocity,
                                        inp.density_kg_m3,
                                        inp.impact_angle_deg,
                                        inp.lat, inp.lon),
         store |-> inputs,
         raw   |-> Num(fragment_count),
         used  |-> Num(fragment_count)]

----------------------------------------------------------------------------
(* The callers.  One behaviour is one run of a caller of the library, as   *)
(* app.py's run block is: its scenario is fixed at the start, it calls     *)
(* simulate_impact on it and applies mitigation operators to the results   *)
(* it holds.  The functions take any number, so the scenarios and the      *)
(* parameters drawn lie inside and outside the documented domains.         *)
(* Nothing in the repository catches an exception, so a call that raises   *)
(* ends the run.                                                           *)

\* results kept alive at once
MaxResults == 3

Diameters == {1, 0, -1}

Velocities == {20000, 1000, 0}

Densities == {3000, -3000}

Angles == {45, 90, 135, -30}

Places == {<<None, None>>, <<<<28>>, <<77>>>>}

Percents == {60, 100, 150}

Counts == {8, 3, 1, 0, -1}

Scenarios == Diameters \X Velocities \X Densities \X Angles \X Places

\* result i with its 'input' reference followed
Deref(i) == [heap[i] EXCEPT !.input = inputs[heap[i].input]]

Init ==
    /\ scenario \in Scenarios
    /\ heap = <<>>
    /\ inputs = <<>>
    /\ made = <<>>
    /\ last = [op |-> "none", prior |-> 0, param |-> 0, exc |-> "none",
               raw |-> Zero, used |-> Zero]

Running == last.exc = "none" /\ Len(heap) < MaxResults

\* a call returns: its dict and the new input dict inside it are allocated;
\* a call raises: nothing is allocated
Return(call, store, op, prior, param) ==
    IF call.exc = "none"
    THEN /\ heap' = Append(heap, [call.out EXCEPT !.input = Len(store) + 1])
         /\ inputs' = Append(store, call.out.input)
         /\ made' = Append(made, [op |-> op, prior |-> prior, param |-> param,
                                  snap |-> call.out])
    ELSE /\ heap' = heap
         /\ inputs' = store
         /\ made' = made

Simulate ==
    /\ Running
    /\ LET call == simulate_impact(Num(scenario[1]), Num(scenario[2]),
                                   Num(scenario[3]), scenario[4],
                                   scenario[5][1], scenario[5][2])
       IN  /\ Return(call, inputs, "simulate_impact", 0, 0)
           /\ last' = [op |-> "simulate_impact", prior |-> 0, param |-> 0,
                       exc |-> call.exc, raw |-> Zero, used |-> Zero]
    /\ UNCHANGED scenario

Mitigate(op, r, i, param) ==
    /\ Return(r.ret, r.store, op, i, param)
    /\ last' = [op |-> op, prior |-> i, param |-> param, exc |-> r.ret.exc,
                raw |-> r.raw, used |-> r.used]
    /\ UNCHANGED scenario

KineticImpactor ==
    /\ Running
    /\ \E i \in 1 .. Len(heap), pct \in Percents :
          Mitigate("apply_kinetic_impactor", apply_kinetic_impactor(i, pct),
                   i, pct)

NuclearDeflection ==
    /\ Running
    /\ \E i \in 1 .. Len(heap), pct \in Percents :
          Mitigate("apply_nuclear_deflection",
                   apply_nuclear_deflection(i, pct), i, pct)

Fragmentation ==
    /\ Running
    /\ \E i \in 1 .. Len(heap), n \in Counts :
          Mitigate("apply_fragmentation", apply_fragmentation(i, n), i, n)

Next == Simulate \/ KineticImpactor \/ NuclearDeflection \/ Fragmentation

Spec == Init /\ [][Next]_vars

----------------------------------------------------------------------------
(* Documented domains (spec, Data model and Mitigation operators) *)

Mitigations ==
    {"apply_kinetic_impactor", "apply_nuclear_deflection",
     "apply_fragmentation"}

\* diameter, velocity and density > 0, angle in (0, 90]
ScenarioInDomain ==
    /\ scenario[1] > 0
    /\ scenario[2] > 0
    /\ scenario[3] > 0
    /\ scenario[4] > 0 /\ scenario[4] <= 90

\* reduction_pct in (0, 100), fragment_count >= 2
ParamInDomain(op, param) ==
    IF op = "apply_fragmentation" THEN param >= 2
    ELSE param > 0 /\ param < 100

\* the most recent call was given an input or parameter outside its domain
LastOutOfDomain ==
    \/ last.op = "simulate_impact" /\ ~ScenarioInDomain
    \/ last.op \in Mitigations /\ ~ParamInDomain(last.op, last.param)

(* C1: every call given an out-of-domain input or parameter is rejected with
   a ContractViolation and returns no result. *)
C1_OutOfDomainRejected == LastOutOfDomain => last.exc = "ContractViolation"

(* C2: a mitigation operator given an out-of-domain parameter never returns
   normally after replacing the quantity it computed from the parameter by
   an in-range substitute. *)
C2_NoClamp ==
    (last.op \in Mitigations /\ ~ParamInDomain(last.op, last.param)
        /\ last.exc = "none")
    => last.used = last.raw

Results == 1 .. Len(heap)

\* the input dict of result k, the one it was derived from, and its parameter
In(k) == inputs[heap[k].input]

PriorOf(k) == made[k].prior

(* C3: no call mutates an earlier result: every result, its 'input' dict
   included, equals what it was when it was returned, and no two results
   share an 'input' dict. *)
C3_PriorsNeverMutated ==
    /\ \A k \in Results : Deref(k) = made[k].snap
    /\ \A j, k \in Results : j # k => heap[j].input # heap[k].input

\* two operators applied to result 1, each with a velocity other than its own
C3_Witness ==
    /\ Len(heap) = 3
    /\ made[2].op \in Mitigations /\ made[2].prior = 1
    /\ made[3].op \in Mitigations /\ made[3].prior = 1
    /\ In(2).velocity_m_s # In(1).velocity_m_s
    /\ In(3).velocity_m_s # In(1).velocity_m_s

(* C4: the input of a mitigation result differs from its prior's only in
   velocity_m_s (kinetic impactor, nuclear deflection) or velocity_m_s and
   diameter_m (fragmentation); density_kg_m3, impact_angle_deg, lat and lon
   are the prior's, hence the same in every result of a chain. *)
C4_OnlyPerturbedFieldsDiffer ==
    /\ \A k \in Results : made[k].op \in Mitigations =>
          /\ In(k).density_kg_m3 = In(PriorOf(k)).density_kg_m3
          /\ In(k).impact_angle_deg = In(PriorOf(k)).impact_angle_deg
          /\ In(k).lat = In(PriorOf(k)).lat
          /\ In(k).lon = In(PriorOf(k)).lon
          /\ made[k].op # "apply_fragmentation" =>
                In(k).diameter_m = In(PriorOf(k)).diameter_m
    /\ \A j, k \in Results :
          /\ In(j).density_kg_m3 = In(k).density_kg_m3
          /\ In(j).impact_angle_deg = In(k).impact_angle_deg
          /\ In(j).lat = In(k).lat
          /\ In(j).lon = In(k).lon

\* a fragmentation of a fragmentation, at a place, both fields perturbed
C4_Witness ==
    /\ Len(heap) = 3
    /\ made[2].op = "apply_fragmentation" /\ made[2].prior = 1
    /\ made[3].op = "apply_fragmentation" /\ made[3].prior = 2
    /\ In(1).lat # None /\ In(1).lon # None
    /\ In(3).diameter_m # In(2).diameter_m
    /\ In(3).velocity_m_s # In(2).velocity_m_s

(* C5: for every prior and reduction_pct in (0,100), nuclear deflection
   multiplies energy_joules and energy_megatons by (1 - pct/100), the
   kinetic impactor multiplies energy_joules by (1 - pct/100)^2, which is
   strictly less than the prior's, and both leave mass_kg unchanged. *)
C5_EnergyReducedByFactor ==
    \A k \in Results :
       LET f == OneMinusPct(made[k].param)
           p == heap[PriorOf(k)]
       IN  /\ (made[k].op = "apply_nuclear_deflection"
                 /\ ParamInDomain(made[k].op, made[k].param)) =>
                  /\ heap[k].energy_joules = Mul(p.energy_joules, f)
                  /\ heap[k].energy_megatons = Mul(p.energy_megatons, f)
                  /\ heap[k].mass_kg = p.mass_kg
           /\ (made[k].op = "apply_kinetic_impactor"
                 /\ ParamInDomain(made[k].op, made[k].param)) =>
                  /\ heap[k].energy_joules =
                        Mul(p.energy_joules, PowInt(f, 2))
                  /\ Lt(heap[k].energy_joules, p.energy_joules)
                  /\ heap[k].mass_kg = p.mass_kg

(* C6: fragmentation into N >= 2 pieces conserves volume: N * d'^3 = d^3
   (d' = d/2 for N = 8), mass_kg is the prior's divided by N,
   N * v'^2 = v^2, and energy_joules is the prior's divided by N^2. *)
C6_FragmentationConservesVolume ==
    \A k \in Results :
       (made[k].op = "apply_fragmentation" /\ made[k].param >= 2) =>
          LET N == Num(made[k].param)
              p == heap[PriorOf(k)]
          IN  /\ Mul(N, PowInt(In(k).diameter_m, 3))
                    = PowInt(In(PriorOf(k)).diameter_m, 3)
              /\ made[k].param = 8 =>
                    In(k).diameter_m = Div(In(PriorOf(k)).diameter_m, Num(2))
              /\ heap[k].mass_kg = Div(p.mass_kg, N)
              /\ Mul(N, PowInt(In(k).velocity_m_s, 2))
                    = PowInt(In(PriorOf(k)).velocity_m_s, 2)
              /\ heap[k].energy_joules = Div(p.energy_joules, PowInt(N, 2))

\* a split into 3 of a split into 8 of a body with positive energy
C6_Witness ==
    /\ Len(heap) = 3
    /\ made[2].op = "apply_fragmentation" /\ made[2].param = 8
    /\ made[2].prior = 1
    /\ made[3].op = "apply_fragmentation" /\ made[3].param = 3
    /\ made[3].prior = 2
    /\ Lt(Zero, heap[1].energy_joules)
    /\ Lt(Zero, In(1).diameter_m)

\* result k comes from an in-domain scenario by in-domain operators only
RECURSIVE InDomainChain(_)
InDomainChain(k) ==
    IF made[k].op = "simulate_impact" THEN ScenarioInDomain
    ELSE ParamInDomain(made[k].op, made[k].param)
            /\ InDomainChain(PriorOf(k))

(* C7: every result of an in-domain input, and every result reached from it
   by in-domain mitigation operators, has lethal_m >= 5, severe_m >= 10,
   moderate_m >= 20 and crater_diameter_m >= 1. *)
C7_FloorsRespected ==
    \A k \in Results : InDomainChain(k) =>
       /\ Leq(Num(5), heap[k].damage_radii_m.lethal_m)
       /\ Leq(Num(10), heap[k].damage_radii_m.severe_m)
       /\ Leq(Num(20), heap[k].damage_radii_m.moderate_m)
       /\ Leq(One, heap[k].crater_diameter_m)

\* the end of an in-domain chain whose energy lies below every threshold:
\* all four values sit on their floors
C7_Witness ==
    /\ Len(heap) = 3
    /\ InDomainChain(3) /\ made[3].prior = 2 /\ made[2].prior = 1
    /\ Lt(Mul(Num(1000), Root(heap[3].energy_megatons, 3)), Num(5))
    /\ heap[3].damage_radii_m =
          [lethal_m |-> Num(5), severe_m |-> Num(10), moderate_m |-> Num(20)]
    /\ heap[3].crater_diameter_m = One

\* the input dict lies in the documented domain
InputInDomain(inp) ==
    /\ Lt(Zero, inp.diameter_m)
    /\ Lt(Zero, inp.velocity_m_s)
    /\ Lt(Zero, inp.density_kg_m3)
    /\ inp.impact_angle_deg > 0 /\ inp.impact_angle_deg <= 90

\* results j and k are of in-domain inputs that differ in velocity only,
\* k's the greater
SlowerThan(j, k) ==
    /\ InputInDomain(In(j)) /\ InputInDomain(In(k))
    /\ In(j).diameter_m = In(k).diameter_m
    /\ In(j).density_kg_m3 = In(k).density_kg_m3
    /\ In(j).impact_angle_deg = In(k).impact_angle_deg
    /\ Lt(In(j).velocity_m_s, In(k).velocity_m_s)

(* C8 as claimed: with diameter, density and angle fixed, a greater velocity
   gives strictly greater energy_joules, energy_megatons, crater_diameter_m,
   lethal_m, severe_m and moderate_m. *)
C8_StrictlyMonotonic ==
    \A j, k \in Results : SlowerThan(j, k) =>
       /\ Lt(heap[j].energy_joules, heap[k].energy_joules)
       /\ Lt(heap[j].energy_megatons, heap[k].energy_megatons)
       /\ Lt(heap[j].crater_diameter_m, heap[k].crater_diameter_m)
       /\ Lt(heap[j].damage_radii_m.lethal_m, heap[k].damage_radii_m.lethal_m)
       /\ Lt(heap[j].damage_radii_m.severe_m, heap[k].damage_radii_m.severe_m)
       /\ Lt(heap[j].damage_radii_m.moderate_m,
             heap[k].damage_radii_m.moderate_m)

\* a <= b, and a < b unless b sits on the floor
GrowsAboveFloor(a, b, floor) == Leq(a, b) /\ (b = floor \/ Lt(a, b))

(* C8 amended: with diameter, density and angle fixed, a greater velocity
   gives strictly greater energy_joules and energy_megatons; the crater
   diameter and the three radii do not decrease, and are strictly greater
   unless the value for the greater velocity is its floor (1, 5, 10, 20). *)
C8_MonotonicAboveFloors ==
    \A j, k \in Results : SlowerThan(j, k) =>
       /\ Lt(heap[j].energy_joules, heap[k].energy_joules)
       /\ Lt(heap[j].energy_megatons, heap[k].energy_megatons)
       /\ GrowsAboveFloor(heap[j].crater_diameter_m,
                          heap[k].crater_diameter_m, One)
       /\ GrowsAboveFloor(heap[j].damage_radii_m.lethal_m,
                          heap[k].damage_radii_m.lethal_m, Num(5))
       /\ GrowsAboveFloor(heap[j].damage_radii_m.severe_m,
                          heap[k].damage_radii_m.severe_m, Num(10))
       /\ GrowsAboveFloor(heap[j].damage_radii_m.moderate_m,
                          heap[k].damage_radii_m.moderate_m, Num(20))

\* three velocities of one body: the two slower with lethal_m on its floor,
\* the fastest above it, and the crater above its floor throughout
C8_Witness ==
    /\ Len(heap) = 3
    /\ SlowerThan(3, 2) /\ SlowerThan(2, 1)
    /\ Lt(Num(5), heap[1].damage_radii_m.lethal_m)
    /\ heap[2].damage_radii_m.lethal_m = Num(5)
    /\ heap[3].damage_radii_m.lethal_m = Num(5)
    /\ Lt(heap[3].crater_diameter_m, heap[2].crater_diameter_m)
    /\ Lt(heap[2].crater_diameter_m, heap[1].crater_diameter_m)

(* C9: simulate_impact is a function of its arguments alone: any two
   results with equal input records are equal in every field, whatever
   calls were made before or between them. *)
C9_Deterministic ==
    \A j, k \in Results : In(j) = In(k) => Deref(j) = Deref(k)

\* the same scenario simulated twice with a mitigation call in between
C9_Witness ==
    /\ Len(heap) = 3
    /\ made[1].op = "simulate_impact"
    /\ made[2].op \in Mitigations /\ In(2) # In(1)
    /\ made[3].op = "simulate_impact"
    /\ Lt(Zero, heap[3].energy_joules)

NoRadii == [lethal_m |-> Zero, severe_m |-> Zero, moderate_m |-> Zero]

(* C10: whenever the computed energy is <= 0, estimate_damage_radii returns
   lethal_m = severe_m = moderate_m = 0 rather than the floors, and the
   three affected areas of that result are 0. *)
C10_ZeroEnergyZeroRadii ==
    \A k \in Results :
       /\ Leq(heap[k].energy_joules, Zero) =>
             /\ heap[k].damage_radii_m = NoRadii
             /\ heap[k].affected_areas_km2 = NoRadii
       /\ estimate_damage_radii(Mul(Num(-1), heap[k].energy_joules))
             = NoRadii

\* a 100 percent reduction of a body with positive energy: velocity 0
C10_Witness ==
    \E k \in Results :
       /\ made[k].op \in Mitigations /\ made[k].param = 100
       /\ Lt(Zero, heap[PriorOf(k)].energy_joules)
       /\ In(k).velocity_m_s = Zero
       /\ heap[k].energy_joules = Zero
       /\ heap[k].damage_radii_m = NoRadii

\* lethal <= severe <= moderate in a record of three zones
Nested(z) == Leq(z.lethal_m, z.severe_m) /\ Leq(z.severe_m, z.moderate_m)

(* C11: the damage zones are nested in every result, the first and every
   result of a chain of mitigation operators, whatever its energy:
   lethal_m <= severe_m <= moderate_m, and the three affected areas are in
   the same order. *)
C11_ZonesNested ==
    \A k \in Results :
       /\ Nested(heap[k].damage_radii_m)
       /\ Nested(heap[k].affected_areas_km2)

\* one body at three energies: lethal_m and moderate_m above their floors
\* with severe_m on its own, then all three on their floors, then energy 0
C11_Witness ==
    /\ Len(heap) = 3
    /\ made[2].op \in Mitigations /\ made[3].op \in Mitigations
    /\ Lt(Num(5), heap[1].damage_radii_m.lethal_m)
    /\ heap[1].damage_radii_m.severe_m = Num(10)
    /\ Lt(Num(20), heap[1].damage_radii_m.moderate_m)
    /\ heap[2].damage_radii_m =
          [lethal_m |-> Num(5), severe_m |-> Num(10), moderate_m |-> Num(20)]
    /\ heap[3].energy_joules = Zero
    /\ heap[3].damage_radii_m = NoRadii

====
